---- MODULE Spec2Model ----
(***************************************************************************)
(* Model of tools/train.py: the LitModel callbacks (training_step,         *)
(* on_train_epoch_end, validation_step, on_validation_epoch_end) and the   *)
(* driver train(), run by the pytorch_lightning Trainer's fit loop.        *)
(*                                                                         *)
(* Floats are modelled as exact non-negative rationals plus the two IEEE   *)
(* special values the metric formulas can produce (NaN and +Inf); rounding *)
(* is not modelled.  The model's parameters (state_dict) are abstracted to *)
(* the number of optimizer steps each sub-module has received.             *)
(***************************************************************************)
EXTENDS Integers, Sequences, FiniteSets, TLC

(***************************************************************************)
(* Bounds of the model.                                                    *)
(***************************************************************************)
MaxEpochs == 1
MaxTrainBatches == 2
MaxValBatches == 2
MaxBatchSize == 1
MaxCount == 1
\* the run of the example: epochs and batch size
ExampleEpochs == 3
ExampleBatchSize == 2

(***************************************************************************)
(* Program constants.                                                      *)
(***************************************************************************)
NumLabels == 10
NumSanityValSteps == 2

(***************************************************************************)
(* Floats.                                                                 *)
(***************************************************************************)
RECURSIVE GCD(_, _)
GCD(a, b) == IF b = 0 THEN a ELSE GCD(b, a % b)

NaN == [k |-> "nan", n |-> 0, d |-> 1]
Inf == [k |-> "inf", n |-> 0, d |-> 1]

Rat(a, b) ==
    LET g == GCD(a, b)
    IN  [k |-> "num", n |-> a \div g, d |-> b \div g]

Num(a) == [k |-> "num", n |-> a, d |-> 1]

IsNaN(x) == x.k = "nan"

\* x + y
FAdd(x, y) ==
    IF IsNaN(x) \/ IsNaN(y) THEN NaN
    ELSE IF x.k = "inf" \/ y.k = "inf" THEN Inf
    ELSE Rat(x.n * y.d + y.n * x.d, x.d * y.d)

\* x * y
FMul(x, y) ==
    IF IsNaN(x) \/ IsNaN(y) THEN NaN
    ELSE IF x.k = "inf" \/ y.k = "inf"
         THEN (IF (x.k = "num" /\ x.n = 0) \/ (y.k = "num" /\ y.n = 0)
               THEN NaN ELSE Inf)
    ELSE Rat(x.n * y.n, x.d * y.d)

\* x / y: 0/0 is NaN and a positive value over 0 is +Inf; no exception
FDiv(x, y) ==
    IF IsNaN(x) \/ IsNaN(y) THEN NaN
    ELSE IF x.k = "inf" THEN (IF y.k = "inf" THEN NaN ELSE Inf)
    ELSE IF y.k = "inf" THEN Num(0)
    ELSE IF y.n = 0 THEN (IF x.n = 0 THEN NaN ELSE Inf)
    ELSE Rat(x.n * y.d, x.d * y.n)

\* x > y: every comparison with NaN is false
FGt(x, y) ==
    IF IsNaN(x) \/ IsNaN(y) THEN FALSE
    ELSE IF x.k = "inf" THEN y.k # "inf"
    ELSE IF y.k = "inf" THEN FALSE
    ELSE x.n * y.d > y.n * x.d

(***************************************************************************)
(* Averager (tools/utils.py): running sum and count.                       *)
(***************************************************************************)
AveragerInit == [sum |-> Num(0), count |-> 0]

AveragerAdd(a, v) == [sum |-> FAdd(a.sum, v), count |-> a.count + 1]

AveragerVal(a) == FDiv(a.sum, Num(a.count))

AveragerReset(a) == AveragerInit

(***************************************************************************)
(* Batches.  A batch holds batch_size * 10 cells, each a predicted         *)
(* probability (in tenths) and a label; it is represented by the number of *)
(* cells of each kind.  Probabilities are saturated (0.0 or 1.0), for      *)
(* which BCELoss is exact: 0 for a matching cell, 100 for a mismatch (the  *)
(* log is clamped at -100).                                                *)
(***************************************************************************)
Probs == {0, 10}
Half == 5
Kinds == Probs \X {0, 1}

RECURSIVE SumOver(_, _)
SumOver(S, f) ==
    IF S = {} THEN 0
    ELSE LET e == CHOOSE x \in S : TRUE
         IN  f[e] + SumOver(S \ {e}, f)

MkBatch(size, tp, fp, fn) ==
    [size |-> size,
     cells |-> [c \in Kinds |->
                  IF c = <<10, 1>> THEN tp
                  ELSE IF c = <<10, 0>> THEN fp
                  ELSE IF c = <<0, 1>> THEN fn
                  ELSE size * NumLabels - (tp + fp + fn)]]

\* the batches with at most MaxCount cells that are not true negatives
SmallBatches(size) ==
    {MkBatch(size, c[1], c[2], c[3]) :
        c \in {x \in (0..MaxCount) \X (0..MaxCount) \X (0..MaxCount) :
                  x[1] + x[2] + x[3] <= MaxCount}}

\* batches whose F1 is 0.3, 0.5, 0.4 and 0.6
ExampleBatches ==
    {MkBatch(ExampleBatchSize, 3, 14, 0), MkBatch(ExampleBatchSize, 1, 2, 0),
     MkBatch(ExampleBatchSize, 1, 3, 0), MkBatch(ExampleBatchSize, 3, 4, 0)}

\* nn.BCELoss(), mean reduction
BCELoss(b) ==
    Rat(SumOver(Kinds, [c \in Kinds |->
            b.cells[c] * (IF (c[1] = 10 /\ c[2] = 1) \/ (c[1] = 0 /\ c[2] = 0) THEN 0 ELSE 100)]),
        b.size * NumLabels)

\* (preds > 0.5).float()
Binarize(p) == IF p > Half THEN 1 ELSE 0

\* acc = (preds == labels).sum() / (batch_size * 10)
Accuracy(matches, size) == Rat(matches, size * NumLabels)

\* a guarded precision: 0 when nothing is predicted positive
PrecisionGuarded(tp, fp) ==
    IF FAdd(tp, fp) = Num(0) THEN Num(0) ELSE FDiv(tp, FAdd(tp, fp))

\* precision = tp / (tp + fp)
Precision(tp, fp) == FDiv(tp, FAdd(tp, fp))

\* recall = tp / (tp + fn)
Recall(tp, fn) == FDiv(tp, FAdd(tp, fn))

\* the F1 formula without its factor 2
F1ScoreNoFactor(precision, recall) ==
    FDiv(FMul(precision, recall), FAdd(precision, recall))

\* f1 = 2 * precision * recall / (precision + recall)
F1Score(precision, recall) ==
    FDiv(FMul(FMul(Num(2), precision), recall), FAdd(precision, recall))

\* the metrics of validation_step
Metrics(b) ==
    LET pred(c) == Binarize(c[1])
        lab(c)  == c[2]
        acc  == Accuracy(SumOver(Kinds, [c \in Kinds |->
                                b.cells[c] * (IF pred(c) = lab(c) THEN 1 ELSE 0)]),
                         b.size)
        tp   == Num(SumOver(Kinds, [c \in Kinds |-> b.cells[c] * (pred(c) * lab(c))]))
        fp   == Num(SumOver(Kinds, [c \in Kinds |-> b.cells[c] * (pred(c) * (1 - lab(c)))]))
        fn   == Num(SumOver(Kinds, [c \in Kinds |-> b.cells[c] * ((1 - pred(c)) * lab(c))]))
        precision == Precision(tp, fp)
        recall    == Recall(tp, fn)
        f1        == F1Score(precision, recall)
    IN  [loss |-> BCELoss(b), acc |-> acc, tp |-> tp, fp |-> fp, fn |-> fn,
         precision |-> precision, recall |-> recall, f1 |-> f1]

(***************************************************************************)
(* State.                                                                  *)
(***************************************************************************)
VARIABLES
    train_full,         \* args.train_full
    epochs,             \* args.epochs
    batch_size,         \* args.batch_size
    n_train,            \* batches per epoch of train_loader
    n_val,              \* batches per epoch of val_loader
    val_data,           \* which validation batches the run can meet
    train_dataset,      \* the directories of the training dataset
    val_dataset,        \* the directories of the validation dataset, if any
    pc,                 \* position of train() and of the Trainer's fit loop
    sanity_checking,    \* trainer.sanity_checking
    epoch,              \* completed training epochs
    batch_idx,
    weights,            \* model.state_dict()
    training,           \* model.training
    grads,              \* the gradients of the two parameter sets
    applied,            \* the gradients each optimizer consumed at its last step
    ops,                \* the operations of the last training_step, in order
    feat_sched,         \* steps of feat_scheduler
    head_sched,         \* steps of head_scheduler
    loss_val_avg,
    acc_val_avg,
    f1_val_avg,
    precision_val_avg,
    recall_val_avg,
    best_f1,
    val_pt,             \* saved_models/{model}_val.pt
    full_pt,            \* saved_models/{model}_full.pt
    returned,           \* what train() returned
    \* history of the run
    last_batch,         \* the last validation batch
    last_metrics,       \* the metrics validation_step computed for it
    val_steps,          \* calls of validation_step
    epoch_f1s,          \* the F1 values added since the last validation epoch end
    f1_hist,            \* the averaged F1 read at each validation epoch end
    w_hist,             \* the weights at each validation epoch end
    write_log,          \* whether each validation epoch end wrote val_pt
    full_writes,        \* writes of full_pt
    fit_weights         \* the weights when fit returned

config == <<train_full, epochs, batch_size, n_train, n_val, val_data, train_dataset,
            val_dataset>>
loop == <<pc, sanity_checking, epoch, batch_idx>>
optim == <<weights, training, grads, applied, ops>>
scheds == <<feat_sched, head_sched>>
averagers == <<loss_val_avg, acc_val_avg, f1_val_avg, precision_val_avg, recall_val_avg>>
files == <<val_pt, full_pt>>
history == <<last_batch, last_metrics, val_steps, epoch_f1s, f1_hist, w_hist, write_log,
             full_writes, fit_weights>>
vars == <<config, loop, optim, scheds, averagers, best_f1, files, returned, history>>

(***************************************************************************)
(* Files and state dicts.  A state dict is the number of optimizer steps   *)
(* each sub-module has received in this run; "stale" marks the parameters  *)
(* of an earlier run.                                                      *)
(***************************************************************************)
InitWeights == [run |-> "this", feat |-> 0, head |-> 0]
StaleWeights == [run |-> "stale", feat |-> 0, head |-> 0]
NoFile == [present |-> FALSE, data |-> StaleWeights]
File(w) == [present |-> TRUE, data |-> w]
NoModel == [ok |-> FALSE, model |-> StaleWeights]

\* torch.save(state_dict, path)
Save(w) == File(w)

\* no reload: the model keeps the parameters fit ended with
LoadStateDictSkipped(w, file) == w

\* model.load_state_dict(torch.load(path)) on a model holding w
LoadStateDict(w, file) == file.data

\* args.train_dirs and args.val_dirs
TrainDirs == <<"train_dir">>
ValDirs == <<"val_dir">>

\* trainer.fit given a validation loader in both modes
HasValLoaderAlways(full) == TRUE

\* whether trainer.fit is given a validation loader
HasValLoader(full) == ~full

(***************************************************************************)
(* Init: train() up to the call of trainer.fit, for every configuration;   *)
(* the checkpoint directory may hold files of an earlier run.              *)
(***************************************************************************)
InitCommon ==
    /\ train_full \in BOOLEAN
    /\ n_train \in 1..MaxTrainBatches
    /\ train_dataset = IF train_full THEN TrainDirs \o ValDirs ELSE TrainDirs
    /\ val_dataset = IF train_full THEN << >> ELSE ValDirs
    /\ pc = IF HasValLoader(train_full) THEN "val" ELSE "train"
    /\ sanity_checking = HasValLoader(train_full)
    /\ epoch = 0
    /\ batch_idx = 0
    /\ weights = InitWeights
    /\ training = TRUE
    /\ grads = [feat |-> "none", head |-> "none"]
    /\ applied = [feat |-> grads, head |-> grads]
    /\ ops = << >>
    /\ feat_sched = 0
    /\ head_sched = 0
    /\ loss_val_avg = AveragerInit
    /\ acc_val_avg = AveragerInit
    /\ f1_val_avg = AveragerInit
    /\ precision_val_avg = AveragerInit
    /\ recall_val_avg = AveragerInit
    /\ best_f1 = Num(0)
    /\ val_pt \in {NoFile, File(StaleWeights)}
    /\ full_pt = val_pt
    /\ returned = NoModel
    /\ last_batch = MkBatch(batch_size, 0, 0, 0)
    /\ last_metrics = Metrics(last_batch)
    /\ val_steps = 0
    /\ epoch_f1s = << >>
    /\ f1_hist = << >>
    /\ w_hist = << >>
    /\ write_log = << >>
    /\ full_writes = 0
    /\ fit_weights = InitWeights

Init ==
    /\ \/ /\ epochs \in 1..MaxEpochs
          /\ batch_size \in 1..MaxBatchSize
          /\ n_val \in 1..MaxValBatches
          /\ val_data = "small"
       \/ /\ epochs = ExampleEpochs
          /\ batch_size = ExampleBatchSize
          /\ n_val = 1
          /\ val_data = "example"
    /\ InitCommon

(***************************************************************************)
(* The fit loop of pl.Trainer(max_epochs = args.epochs), every other       *)
(* option at its default.  With a validation loader it first runs the      *)
(* sanity check (validation_step on at most num_sanity_val_steps = 2       *)
(* batches, then on_validation_epoch_end); each epoch then runs            *)
(* training_step on every training batch, validation_step on every         *)
(* validation batch, on_validation_epoch_end and on_train_epoch_end.       *)
(* Without a validation loader an epoch is the training batches and        *)
(* on_train_epoch_end.  Each action below is one callback together with    *)
(* the loop's move to the next one.                                        *)
(***************************************************************************)

(***************************************************************************)
(* LitModel.training_step                                                  *)
(***************************************************************************)
\* training_step stepping the optimizers before the clipping
TrainingStepBodyClipLate ==
    <<"model.train", "forward", "loss",
      "feat_optimizer.zero_grad", "head_optimizer.zero_grad",
      "manual_backward",
      "feat_optimizer.step", "head_optimizer.step",
      "clip_gradients(feat_optimizer)", "clip_gradients(head_optimizer)",
      "log">>

\* training_step also stepping the schedulers, once per batch
TrainingStepBodySchedPerBatch ==
    <<"model.train", "forward", "loss",
      "feat_optimizer.zero_grad", "head_optimizer.zero_grad",
      "manual_backward",
      "clip_gradients(feat_optimizer)", "clip_gradients(head_optimizer)",
      "feat_optimizer.step", "head_optimizer.step",
      "feat_scheduler.step", "head_scheduler.step",
      "log">>

TrainingStepBody ==
    <<"model.train", "forward", "loss",
      "feat_optimizer.zero_grad", "head_optimizer.zero_grad",
      "manual_backward",
      "clip_gradients(feat_optimizer)", "clip_gradients(head_optimizer)",
      "feat_optimizer.step", "head_optimizer.step",
      "log">>

Backward(g) == IF g \in {"none", "zero"} THEN "raw" ELSE "accumulated"
Clip(g) == IF g = "raw" THEN "clipped" ELSE g

OnTrainEpochEndBody == <<"feat_scheduler.step", "head_scheduler.step">>

\* the machine the callbacks' operations act on
Machine ==
    [training |-> training, preds |-> FALSE, loss |-> FALSE, grads |-> grads,
     weights |-> weights, applied |-> applied, feat_sched |-> feat_sched,
     head_sched |-> head_sched]

\* the effect of one operation of training_step or on_train_epoch_end
Exec(m, op) ==
    CASE op = "model.train" -> [m EXCEPT !.training = TRUE]
      [] op = "forward" -> [m EXCEPT !.preds = TRUE]
      [] op = "loss" -> [m EXCEPT !.loss = m.preds]
      [] op = "feat_optimizer.zero_grad" -> [m EXCEPT !.grads.feat = "zero"]
      [] op = "head_optimizer.zero_grad" -> [m EXCEPT !.grads.head = "zero"]
      [] op = "manual_backward" ->
            IF m.loss
            THEN [m EXCEPT !.grads = [feat |-> Backward(m.grads.feat),
                                      head |-> Backward(m.grads.head)]]
            ELSE m
      [] op = "clip_gradients(feat_optimizer)" -> [m EXCEPT !.grads.feat = Clip(m.grads.feat)]
      [] op = "clip_gradients(head_optimizer)" -> [m EXCEPT !.grads.head = Clip(m.grads.head)]
      [] op = "feat_optimizer.step" ->
            [m EXCEPT !.weights.feat = m.weights.feat + 1, !.applied.feat = m.grads]
      [] op = "head_optimizer.step" ->
            [m EXCEPT !.weights.head = m.weights.head + 1, !.applied.head = m.grads]
      [] op = "feat_scheduler.step" -> [m EXCEPT !.feat_sched = m.feat_sched + 1]
      [] op = "head_scheduler.step" -> [m EXCEPT !.head_sched = m.head_sched + 1]
      [] OTHER -> m

RECURSIVE RunOps(_, _)
RunOps(m, body) ==
    IF body = << >> THEN m ELSE RunOps(Exec(m, Head(body)), Tail(body))

training_step ==
    /\ pc = "train"
    /\ LET m == RunOps(Machine, TrainingStepBody)
       IN  /\ weights' = m.weights
           /\ training' = m.training
           /\ grads' = m.grads
           /\ applied' = m.applied
           /\ feat_sched' = m.feat_sched
           /\ head_sched' = m.head_sched
           /\ ops' = TrainingStepBody
    /\ batch_idx' = IF batch_idx + 1 = n_train THEN 0 ELSE batch_idx + 1
    /\ pc' = IF batch_idx + 1 < n_train THEN "train"
             ELSE IF HasValLoader(train_full) THEN "val" ELSE "train_end"
    /\ UNCHANGED <<config, sanity_checking, epoch, averagers, best_f1, files,
                   returned, history>>

(***************************************************************************)
(* LitModel.on_train_epoch_end                                             *)
(***************************************************************************)
on_train_epoch_end ==
    /\ pc = "train_end"
    /\ LET m == RunOps(Machine, OnTrainEpochEndBody)
       IN  /\ feat_sched' = m.feat_sched
           /\ head_sched' = m.head_sched
    /\ epoch' = epoch + 1
    /\ pc' = IF epoch + 1 = epochs THEN "fit_done" ELSE "train"
    /\ fit_weights' = IF epoch + 1 = epochs THEN weights ELSE fit_weights
    /\ UNCHANGED <<config, sanity_checking, batch_idx, optim, averagers, best_f1, files,
                   returned, last_batch, last_metrics, val_steps, epoch_f1s, f1_hist,
                   w_hist, write_log, full_writes>>

(***************************************************************************)
(* LitModel.validation_step                                                *)
(***************************************************************************)
Min(a, b) == IF a < b THEN a ELSE b

\* the validation batches of this pass: the sanity check runs at most 2
ValLimit == IF sanity_checking THEN Min(NumSanityValSteps, n_val) ELSE n_val

\* what a validation batch (predictions and labels) can be in this run
ValBatches ==
    IF val_data = "example" THEN ExampleBatches ELSE SmallBatches(batch_size)

validation_step(b) ==
    /\ pc = "val"
    /\ LET m == Metrics(b)
       IN  /\ loss_val_avg' = AveragerAdd(loss_val_avg, m.loss)
           /\ acc_val_avg' = AveragerAdd(acc_val_avg, m.acc)
           /\ f1_val_avg' = AveragerAdd(f1_val_avg, m.f1)
           /\ precision_val_avg' = AveragerAdd(precision_val_avg, m.precision)
           /\ recall_val_avg' = AveragerAdd(recall_val_avg, m.recall)
           /\ last_metrics' = m
           /\ epoch_f1s' = Append(epoch_f1s, m.f1)
    /\ training' = FALSE
    /\ last_batch' = b
    /\ val_steps' = val_steps + 1
    /\ batch_idx' = IF batch_idx + 1 = ValLimit THEN 0 ELSE batch_idx + 1
    /\ pc' = IF batch_idx + 1 < ValLimit THEN "val" ELSE "val_end"
    /\ UNCHANGED <<config, sanity_checking, epoch, weights, grads, applied, ops, scheds,
                   best_f1, files, returned, f1_hist, w_hist, write_log, full_writes,
                   fit_weights>>

(***************************************************************************)
(* LitModel.on_validation_epoch_end                                        *)
(***************************************************************************)
\* current_f1 >= self.best_f1
ImprovedOrEqual(current_f1, best) ==
    FGt(current_f1, best) \/ (~IsNaN(current_f1) /\ current_f1 = best)

\* current_f1 < self.best_f1
ImprovedReversed(current_f1, best) == FGt(best, current_f1)

\* current_f1 > self.best_f1
Improved(current_f1, best) == FGt(current_f1, best)

\* the reset of f1_val_avg left out
ResetAveragersButF1(a) ==
    [x \in DOMAIN a |-> IF x = "f1" THEN a[x] ELSE AveragerReset(a[x])]

\* the five reset() calls
ResetAveragers(a) == [x \in DOMAIN a |-> AveragerReset(a[x])]

on_validation_epoch_end ==
    /\ pc = "val_end"
    /\ LET current_f1 == AveragerVal(f1_val_avg)
       IN  /\ IF Improved(current_f1, best_f1)
              THEN /\ best_f1' = current_f1
                   /\ val_pt' = Save(weights)
                   /\ write_log' = Append(write_log, TRUE)
              ELSE /\ UNCHANGED <<best_f1, val_pt>>
                   /\ write_log' = Append(write_log, FALSE)
           /\ f1_hist' = Append(f1_hist, current_f1)
    /\ w_hist' = Append(w_hist, weights)
    /\ LET r == ResetAveragers([loss |-> loss_val_avg, acc |-> acc_val_avg,
                                 f1 |-> f1_val_avg, precision |-> precision_val_avg,
                                 recall |-> recall_val_avg])
       IN  /\ loss_val_avg' = r.loss
           /\ acc_val_avg' = r.acc
           /\ f1_val_avg' = r.f1
           /\ precision_val_avg' = r.precision
           /\ recall_val_avg' = r.recall
    /\ epoch_f1s' = << >>
    /\ sanity_checking' = FALSE
    /\ pc' = IF sanity_checking THEN "train" ELSE "train_end"
    /\ UNCHANGED <<config, epoch, batch_idx, optim, scheds, full_pt, returned, last_batch,
                   last_metrics, val_steps, full_writes, fit_weights>>

(***************************************************************************)
(* train(): what follows trainer.fit                                       *)
(***************************************************************************)
\* torch.load(path) then load_state_dict: fails when the file is missing
train_return ==
    /\ pc = "fit_done"
    /\ IF train_full
       THEN /\ full_pt' = Save(weights)
            /\ full_writes' = full_writes + 1
            /\ returned' = [ok |-> TRUE, model |-> weights]
            /\ pc' = "returned"
            /\ UNCHANGED <<weights, val_pt>>
       ELSE /\ IF val_pt.present
               THEN /\ weights' = LoadStateDict(weights, val_pt)
                    /\ returned' = [ok |-> TRUE, model |-> weights']
                    /\ pc' = "returned"
               ELSE /\ pc' = "failed"
                    /\ UNCHANGED <<weights, returned>>
            /\ UNCHANGED <<full_pt, val_pt, full_writes>>
    /\ UNCHANGED <<config, sanity_checking, epoch, batch_idx, training, grads, applied, ops,
                   scheds, averagers, best_f1, last_batch, last_metrics, val_steps,
                   epoch_f1s, f1_hist, w_hist, write_log, fit_weights>>

Next ==
    \/ training_step
    \/ on_train_epoch_end
    \/ \E b \in ValBatches : validation_step(b)
    \/ on_validation_epoch_end
    \/ train_return

Spec == Init /\ [][Next]_vars

(***************************************************************************)
(* Helpers of the properties.                                              *)
(***************************************************************************)
ValEnds == 1..Len(f1_hist)

\* the best F1 held after the first i validation epoch ends
RECURSIVE BestAfter(_)
BestAfter(i) ==
    IF i = 0 THEN Num(0)
    ELSE LET b == BestAfter(i - 1)
         IN  IF FGt(f1_hist[i], b) THEN f1_hist[i] ELSE b

Wrote == {i \in ValEnds : write_log[i]}

LastOf(S) == CHOOSE i \in S : \A j \in S : j <= i

\* val_pt was not written in this run
ValPtUntouched == ~val_pt.present \/ val_pt.data.run = "stale"

AfterFit == pc \in {"fit_done", "returned", "failed"}

RECURSIVE SeqSum(_)
SeqSum(q) == IF q = << >> THEN Num(0) ELSE FAdd(Head(q), SeqSum(Tail(q)))

\* C1: a validation epoch end writes the best-F1 checkpoint if and only if
\* the averaged F1 it read strictly exceeds the best F1 held before it
\* (0.0 at first); otherwise the file is left as it was.  For the averaged
\* F1 sequence 0.3, 0.5, 0.4, 0.6 the writes are the first, second and
\* fourth.
C1_WriteIffImproved ==
    /\ Len(write_log) = Len(f1_hist)
    /\ \A i \in ValEnds : write_log[i] <=> FGt(f1_hist[i], BestAfter(i - 1))
    /\ IF Wrote = {} THEN ValPtUntouched ELSE val_pt = File(w_hist[LastOf(Wrote)])
    /\ f1_hist = <<Rat(3, 10), Rat(1, 2), Rat(2, 5), Rat(3, 5)>>
         => write_log = <<TRUE, TRUE, FALSE, TRUE>>

C1_Witness ==
    /\ f1_hist = <<Rat(3, 10), Rat(1, 2), Rat(2, 5), Rat(3, 5)>>
    /\ write_log = <<TRUE, TRUE, FALSE, TRUE>>
    /\ val_pt = File(w_hist[4])

\* the first validation epoch end whose averaged F1 is the best of the run
BestEpoch ==
    CHOOSE i \in ValEnds :
        /\ ~IsNaN(f1_hist[i])
        /\ \A j \in ValEnds : ~FGt(f1_hist[j], f1_hist[i])
        /\ \A j \in 1..(i - 1) : f1_hist[j] # f1_hist[i]

SomeImprovement == \E i \in ValEnds : FGt(f1_hist[i], Num(0))

\* C2: in held-out mode, when some validation epoch raised best_f1, the
\* model train() returns has the parameters the model had at the validation
\* epoch with the best averaged F1 (the last one that raised best_f1), which
\* val_pt holds; when that epoch is not the last, they are not the
\* parameters fit ended with.
C2_ReturnsBestCheckpoint ==
    (pc = "returned" /\ ~train_full /\ SomeImprovement) =>
        /\ returned = [ok |-> TRUE, model |-> w_hist[BestEpoch]]
        /\ weights = w_hist[BestEpoch]
        /\ val_pt = File(w_hist[BestEpoch])
        /\ BestEpoch = LastOf(Wrote)
        /\ BestEpoch < Len(f1_hist) => returned.model # fit_weights

C2_Witness ==
    /\ pc = "returned"
    /\ ~train_full
    /\ SomeImprovement
    /\ BestEpoch < Len(f1_hist)
    /\ returned.model = w_hist[BestEpoch]
    /\ returned.model # fit_weights

\* C3: both schedulers have been stepped once per completed training epoch,
\* whatever the number of batches, so exactly args.epochs times once fit has
\* returned.
C3_SchedulerStepsPerEpoch ==
    /\ feat_sched = epoch
    /\ head_sched = epoch
    /\ AfterFit => feat_sched = epochs /\ head_sched = epochs

C3_Witness ==
    /\ pc = "returned"
    /\ epochs = ExampleEpochs
    /\ n_train = MaxTrainBatches
    /\ feat_sched = epochs
    /\ head_sched = epochs
    /\ weights.feat = epochs * n_train

\* C4: a full-mode run trains on the train and validation directories with
\* no validation loader, runs no validation callback, never writes val_pt,
\* writes full_pt exactly once, after fit, and returns the in-memory model.
C4_FullMode ==
    train_full =>
        /\ train_dataset = TrainDirs \o ValDirs
        /\ val_dataset = << >>
        /\ val_steps = 0
        /\ f1_hist = << >>
        /\ ValPtUntouched
        /\ pc # "failed"
        /\ full_writes = IF pc = "returned" THEN 1 ELSE 0
        /\ pc = "returned" =>
              /\ returned = [ok |-> TRUE, model |-> fit_weights]
              /\ weights = fit_weights
              /\ full_pt = File(fit_weights)

C4_Witness ==
    /\ train_full
    /\ pc = "returned"
    /\ full_writes = 1
    /\ full_pt = File(weights)
    /\ weights.feat = epochs * n_train
    /\ ValPtUntouched

\* C5: best_f1 never decreases, is never NaN, and is the maximum of 0.0 and
\* the averaged F1 values read so far; it changes only in
\* on_validation_epoch_end, and a step that raises it writes val_pt.
C5_BestF1 ==
    /\ best_f1 = Num(0)
    /\ [][/\ ~IsNaN(best_f1')
          /\ best_f1' \in {Num(0)} \cup {f1_hist'[i] : i \in 1..Len(f1_hist')}
          /\ \A i \in 1..Len(f1_hist') : ~FGt(f1_hist'[i], best_f1')
          /\ ~FGt(best_f1, best_f1')
          /\ best_f1' # best_f1 =>
                /\ FGt(best_f1', best_f1)
                /\ pc = "val_end"
                /\ Len(f1_hist') = Len(f1_hist) + 1
                /\ val_pt' = File(weights)
                /\ write_log' = Append(write_log, TRUE)]_vars

C5_Witness ==
    /\ Len(f1_hist) = 3
    /\ FGt(f1_hist[1], Num(0))
    /\ FGt(f1_hist[2], f1_hist[1])
    /\ FGt(f1_hist[2], f1_hist[3])
    /\ best_f1 = f1_hist[2]
    /\ val_pt = File(w_hist[2])

\* every binarized prediction of the batch equals its label
AllCorrect(b) ==
    \A c \in Kinds : b.cells[c] > 0 => ((c[1] > Half) <=> (c[2] = 1))

Positives(b) == b.cells[<<10, 1>>] + b.cells[<<0, 1>>]

\* the statement of C6 as written: a batch with every prediction correct has
\* accuracy, precision, recall and F1 equal to 1.0
C6_Original ==
    (val_steps > 0 /\ AllCorrect(last_batch)) =>
        /\ last_metrics.acc = Num(1)
        /\ last_metrics.precision = Num(1)
        /\ last_metrics.recall = Num(1)
        /\ last_metrics.f1 = Num(1)

\* C6: for a validation batch in which every binarized prediction equals its
\* label, TP, FP and FN are pooled over the batch and the 10 labels and the
\* accuracy is 1.0; precision, recall and F1 are 1.0 when the batch has a
\* positive label, and NaN when it has none.
C6_AllCorrectBatch ==
    (val_steps > 0 /\ AllCorrect(last_batch)) =>
        /\ last_metrics.acc = Num(1)
        /\ last_metrics.tp = Num(Positives(last_batch))
        /\ last_metrics.fp = Num(0)
        /\ last_metrics.fn = Num(0)
        /\ Positives(last_batch) > 0 =>
              /\ last_metrics.precision = Num(1)
              /\ last_metrics.recall = Num(1)
              /\ last_metrics.f1 = Num(1)
        /\ Positives(last_batch) = 0 =>
              /\ IsNaN(last_metrics.precision)
              /\ IsNaN(last_metrics.recall)
              /\ IsNaN(last_metrics.f1)

C6_Witness ==
    /\ val_steps > 0
    /\ AllCorrect(last_batch)
    /\ Positives(last_batch) > 0
    /\ last_metrics.acc = Num(1)
    /\ last_metrics.f1 = Num(1)

\* C7: for a validation batch with no true positive and no false positive,
\* precision is NaN (and so is F1); the NaN is added to the precision and F1
\* averagers like any value, and the validation pass goes on.
C7_NaNPrecision ==
    (epoch_f1s # << >> /\ last_metrics.tp = Num(0) /\ last_metrics.fp = Num(0)) =>
        /\ IsNaN(last_metrics.precision)
        /\ IsNaN(last_metrics.f1)
        /\ IsNaN(precision_val_avg.sum)
        /\ IsNaN(f1_val_avg.sum)
        /\ precision_val_avg.count = Len(epoch_f1s)
        /\ f1_val_avg.count = Len(epoch_f1s)
        /\ IsNaN(epoch_f1s[Len(epoch_f1s)])
        /\ pc \in {"val", "val_end"}

C7_Witness ==
    /\ epoch_f1s # << >>
    /\ last_metrics.tp = Num(0)
    /\ last_metrics.fp = Num(0)
    /\ IsNaN(precision_val_avg.sum)
    /\ IsNaN(f1_val_avg.sum)
    /\ pc = "val"
    /\ ~sanity_checking

\* C8: the five averagers hold exactly the values added since the last
\* validation epoch end: they are in the zero state when none was added, the
\* averaged F1 read at a validation epoch end is the sum of the N values
\* added since the previous one divided by N, and after one add(x) the
\* average is x.
C8_AveragePerEpoch ==
    /\ \A a \in {loss_val_avg, acc_val_avg, f1_val_avg, precision_val_avg, recall_val_avg} :
          /\ a.count = Len(epoch_f1s)
          /\ epoch_f1s = << >> => a = AveragerInit
    /\ f1_val_avg.sum = SeqSum(epoch_f1s)
    /\ pc = "val_end" =>
          /\ epoch_f1s # << >>
          /\ AveragerVal(f1_val_avg) = FDiv(SeqSum(epoch_f1s), Num(Len(epoch_f1s)))
    /\ Len(epoch_f1s) = 1 => AveragerVal(f1_val_avg) = epoch_f1s[1]

C8_Witness ==
    /\ pc = "val_end"
    /\ Len(f1_hist) >= 1
    /\ IsNaN(f1_hist[Len(f1_hist)])
    /\ Len(epoch_f1s) = 2
    /\ AveragerVal(f1_val_avg) = Num(1)

Pos(op) == CHOOSE i \in 1..Len(ops) : ops[i] = op

Forward == {"forward", "loss"}
ZeroGrad == {"feat_optimizer.zero_grad", "head_optimizer.zero_grad"}
ClipGrad == {"clip_gradients(feat_optimizer)", "clip_gradients(head_optimizer)"}
OptStep == {"feat_optimizer.step", "head_optimizer.step"}

Clipped == [feat |-> "clipped", head |-> "clipped"]

\* C9: a training_step runs forward and loss, then zeroes the gradients of
\* both optimizers, then runs backward, then clips both parameter sets, then
\* steps both optimizers: each optimizer steps on gradients that backward
\* computed after the zeroing and that are clipped for both parameter sets.
C9_TrainingStepOrder ==
    ops # << >> =>
        /\ \A x \in Forward \cup ZeroGrad \cup {"manual_backward"} \cup ClipGrad \cup OptStep :
              Cardinality({i \in 1..Len(ops) : ops[i] = x}) = 1
        /\ Pos("forward") < Pos("loss")
        /\ \A a \in Forward, z \in ZeroGrad : Pos(a) < Pos(z)
        /\ \A z \in ZeroGrad : Pos(z) < Pos("manual_backward")
        /\ \A c \in ClipGrad : Pos("manual_backward") < Pos(c)
        /\ \A c \in ClipGrad, o \in OptStep : Pos(c) < Pos(o)
        /\ applied.feat = Clipped
        /\ applied.head = Clipped
        /\ grads = Clipped
        /\ weights.run = "this" => weights.feat = weights.head

C9_Witness ==
    /\ ops = TrainingStepBody
    /\ weights = [run |-> "this", feat |-> 2, head |-> 2]
    /\ applied.feat = Clipped
    /\ applied.head = Clipped

\* the statement of C10: in held-out mode, once fit has completed, this run
\* has written val_pt at least once, so the reload reads a file of this run
C10_Original ==
    (~train_full /\ AfterFit) =>
        /\ Wrote # {}
        /\ val_pt.present
        /\ val_pt.data.run = "this"
        /\ pc # "failed"

====
